---- MODULE Spec2Model ----
(***************************************************************************)
(* Model of the Personal-Health-Data-Aggregator: timestamp normalization   *)
(* (src/src/normalizer.py), date-keyed merge and daily summaries           *)
(* (src/src/merger.py), the low-sleep calorie metric (src/src/metrics.py)  *)
(* and the aggregation pipeline (src/src/main.py).                         *)
(*                                                                         *)
(* Representation of Python values.  Every JSON value is a tuple whose     *)
(* first element is a tag:                                                 *)
(*   <<"int", n>>                 a number                                 *)
(*   <<"txt", s>>                 an opaque string (identifier, label)     *)
(*   <<"none">>                   JSON null                                *)
(*   <<"str", c1, ..., cn>>       a string given by its character codes    *)
(*   <<"iso", y,mo,d,h,mi,s,sfx,off>>  the text "YYYY-MM-DDTHH:MM:SS" with *)
(*        suffix sfx: 0 none, 1 the letter Z, 2 a numeric "+HH:MM" offset  *)
(*        of off minutes                                                   *)
(*   <<"loc", y,mo,d,h,mi,s>>     the text "YYYY-MM-DD HH:MM:SS"           *)
(*   <<"bad", n>>                 a text that is no timestamp at all       *)
(* A dict is a function from key names to values.  A call's outcome is     *)
(* [ok |-> TRUE, val |-> v] or [ok |-> FALSE, exc |-> name, mentions |->   *)
(* the values the exception's message contains].                           *)
(***************************************************************************)
EXTENDS Integers, Sequences, FiniteSets, TLC

VARIABLES pc, sleep_records, workout_records, normalized_sleep,
          normalized_workouts, warnings, merged_data, report, metadata,
          threshold, avg_calories, unit, rerun, processed

vars == <<pc, sleep_records, workout_records, normalized_sleep,
          normalized_workouts, warnings, merged_data, report, metadata,
          threshold, avg_calories, unit, rerun, processed>>

-----------------------------------------------------------------------------
(* Bounds of the model *)

MaxSleep == 2

MaxWorkouts == 2

\* the records of each file when the records are normalized in any order
MaxBatch == 2

-----------------------------------------------------------------------------
(* Outcomes and values *)

Ok(v) == [ok |-> TRUE, val |-> v]

Raise(e, m) == [ok |-> FALSE, exc |-> e, mentions |-> m]

Tag(v) == v[1]

IsStr(v) == Tag(v) \in {"iso", "loc", "bad", "str", "txt"}

IntOf(v) == v[2]

Int_(n) == <<"int", n>>

Txt(s) == <<"txt", s>>

NoneVal == <<"none">>

\* dict.get(key, default)
Get(r, k, default) == IF k \in DOMAIN r THEN r[k] ELSE default

\* mutant: only the written fields are returned, the raw record is dropped
Update_DropRaw(r, extra) == extra

\* {**record, **extra}: the keys of extra win
Update(r, extra) ==
  [k \in DOMAIN r \cup DOMAIN extra |-> IF k \in DOMAIN extra THEN extra[k] ELSE r[k]]

-----------------------------------------------------------------------------
(* Calendar arithmetic of datetime *)

IsLeap(y) == (y % 4 = 0 /\ y % 100 # 0) \/ y % 400 = 0

DaysInMonth(y, mo) ==
  IF mo = 2 THEN (IF IsLeap(y) THEN 29 ELSE 28)
  ELSE IF mo \in {4, 6, 9, 11} THEN 30 ELSE 31

\* days since 1970-01-01 of a proleptic Gregorian date
DaysFromCivil(y, mo, d) ==
  LET yy  == IF mo <= 2 THEN y - 1 ELSE y
      era == yy \div 400
      yoe == yy - era * 400
      mp  == (mo + 9) % 12
      doy == (153 * mp + 2) \div 5 + d - 1
      doe == yoe * 365 + yoe \div 4 - yoe \div 100 + doy
  IN  era * 146097 + doe - 719468

\* 0 = Sunday
Weekday(y, mo, d) == (DaysFromCivil(y, mo, d) + 4) % 7

\* day of month of the n-th Sunday of a month
NthSunday(y, mo, n) ==
  LET first == 1 + ((7 - Weekday(y, mo, 1)) % 7) IN first + 7 * (n - 1)

ValidFields(y, mo, d, h, mi, s) ==
  /\ y \in 1..9999 /\ mo \in 1..12 /\ d >= 1 /\ d <= DaysInMonth(y, mo)
  /\ h \in 0..23 /\ mi \in 0..59 /\ s \in 0..59

\* a datetime; aware = FALSE is a naive datetime (tzinfo None), off in minutes
DateTime(y, mo, d, h, mi, s, aware, off) ==
  [y |-> y, mo |-> mo, d |-> d, h |-> h, mi |-> mi, s |-> s,
   aware |-> aware, off |-> off]

MinuteOfDay(dt) == dt.h * 60 + dt.mi

\* the civil date after and before a civil date
NextDate(y, mo, d) ==
  IF d < DaysInMonth(y, mo) THEN <<y, mo, d + 1>>
  ELSE IF mo < 12 THEN <<y, mo + 1, 1>>
  ELSE <<y + 1, 1, 1>>

PrevDate(y, mo, d) ==
  IF d > 1 THEN <<y, mo, d - 1>>
  ELSE IF mo > 1 THEN <<y, mo - 1, DaysInMonth(y, mo - 1)>>
  ELSE <<y - 1, 12, 31>>

\* the datetime with UTC fields given the civil date c and minute of day m
UtcAt(c, m, s) == DateTime(c[1], c[2], c[3], m \div 60, m % 60, s, TRUE, 0)

\* the wall time moved by m minutes of day, m within a day of the wall date
Carry(dt, m) ==
  IF m < 0 THEN UtcAt(PrevDate(dt.y, dt.mo, dt.d), m + 1440, dt.s)
  ELSE IF m >= 1440 THEN UtcAt(NextDate(dt.y, dt.mo, dt.d), m - 1440, dt.s)
  ELSE UtcAt(<<dt.y, dt.mo, dt.d>>, m, dt.s)

\* mutant: the zone is relabelled as UTC, the wall time is not converted
ToUtc_Relabel(dt) == [dt EXCEPT !.off = 0]

\* datetime.astimezone(timezone.utc) of an aware datetime: the offset, less
\* than a day, is subtracted from the wall time
ToUtc(dt) == Carry(dt, MinuteOfDay(dt) - dt.off)

\* datetime.isoformat(): the suffix is numeric for an aware datetime
IsoFormat(dt) ==
  <<"iso", dt.y, dt.mo, dt.d, dt.h, dt.mi, dt.s,
    IF dt.aware THEN 2 ELSE 0, IF dt.aware THEN dt.off ELSE 0>>

Digit(n) == 48 + n

Pad2(n) == <<Digit((n \div 10) % 10), Digit(n % 10)>>

Pad4(n) == <<Digit((n \div 1000) % 10), Digit((n \div 100) % 10)>> \o Pad2(n % 100)

\* strftime("%Y-%m-%d"), 45 is the code of "-"
FormatDate(y, mo, d) == <<"str">> \o Pad4(y) \o <<45>> \o Pad2(mo) \o <<45>> \o Pad2(d)

-----------------------------------------------------------------------------
(* TimestampNormalizer *)

\* ZoneInfo rule of each registered label: standard offset in minutes and
\* whether the zone observes United States daylight saving time
TIMEZONE_MAP ==
  [k \in {"UTC", "PST", "EST", "CST", "MST", "GMT"} |->
     CASE k = "UTC" -> [std |-> 0, dst |-> FALSE]
       [] k = "GMT" -> [std |-> 0, dst |-> FALSE]
       [] k = "PST" -> [std |-> -480, dst |-> TRUE]
       [] k = "MST" -> [std |-> -420, dst |-> TRUE]
       [] k = "CST" -> [std |-> -360, dst |-> TRUE]
       [] k = "EST" -> [std |-> -300, dst |-> TRUE]]

\* daylight saving time is in effect at a wall time (fold = 0): from 03:00 on
\* the second Sunday of March until 02:00 on the first Sunday of November; a
\* wall time in the skipped hour keeps the standard offset, one in the
\* repeated hour the daylight offset
InDst(y, mo, d, h) ==
  LET start == NthSunday(y, 3, 2)
      end   == NthSunday(y, 11, 1)
  IN  \/ mo \in 4..10
      \/ mo = 3 /\ (d > start \/ (d = start /\ h >= 3))
      \/ mo = 11 /\ (d < end \/ (d = end /\ h < 2))

\* tzinfo.utcoffset() of the wall time in the zone, in minutes
UtcOffset(zone, y, mo, d, h) ==
  IF zone.dst /\ InDst(y, mo, d, h) THEN zone.std + 60 ELSE zone.std

parse_utc_timestamp(ts) ==
  IF ~IsStr(ts) THEN Raise("AttributeError", <<>>)
  ELSE IF Tag(ts) = "iso" /\ ValidFields(ts[2], ts[3], ts[4], ts[5], ts[6], ts[7])
    THEN Ok(DateTime(ts[2], ts[3], ts[4], ts[5], ts[6], ts[7],
                     ts[8] # 0, IF ts[8] = 2 THEN ts[9] ELSE 0))
  ELSE IF Tag(ts) = "loc" /\ ValidFields(ts[2], ts[3], ts[4], ts[5], ts[6], ts[7])
    THEN Ok(DateTime(ts[2], ts[3], ts[4], ts[5], ts[6], ts[7], FALSE, 0))
  ELSE Raise("ValueError", <<ts>>)

\* mutant: a label the registry does not have is taken to be UTC
parse_local_timestamp_DefaultUtc(ts, tz_name) ==
  IF ~IsStr(ts) THEN Raise("TypeError", <<>>)
  ELSE IF ~(Tag(ts) = "loc" /\ ValidFields(ts[2], ts[3], ts[4], ts[5], ts[6], ts[7]))
    THEN Raise("ValueError", <<ts, tz_name>>)
  ELSE LET tz       == IF Tag(tz_name) = "txt" /\ tz_name[2] \in DOMAIN TIMEZONE_MAP
                         THEN TIMEZONE_MAP[tz_name[2]] ELSE TIMEZONE_MAP["UTC"]
           off      == UtcOffset(tz, ts[2], ts[3], ts[4], ts[5])
           local_aware == DateTime(ts[2], ts[3], ts[4], ts[5], ts[6], ts[7], TRUE, off)
           utc_dt   == ToUtc(local_aware)
           local_date == FormatDate(ts[2], ts[3], ts[4])
       IN  Ok(<<utc_dt, local_date>>)
parse_local_timestamp(ts, tz_name) ==
  IF ~IsStr(ts) THEN Raise("TypeError", <<>>)
  ELSE IF ~(Tag(ts) = "loc" /\ ValidFields(ts[2], ts[3], ts[4], ts[5], ts[6], ts[7]))
    THEN Raise("ValueError", <<ts, tz_name>>)
  ELSE IF ~(Tag(tz_name) = "txt" /\ tz_name[2] \in DOMAIN TIMEZONE_MAP)
    THEN Raise("ValueError", <<ts, tz_name>>)
  ELSE LET tz       == TIMEZONE_MAP[tz_name[2]]
           off      == UtcOffset(tz, ts[2], ts[3], ts[4], ts[5])
           local_aware == DateTime(ts[2], ts[3], ts[4], ts[5], ts[6], ts[7], TRUE, off)
           utc_dt   == ToUtc(local_aware)
           local_date == FormatDate(ts[2], ts[3], ts[4])
       IN  Ok(<<utc_dt, local_date>>)

get_utc_date(dt) == FormatDate(dt.y, dt.mo, dt.d)

\* except ValueError as e: raise ValueError(f"...: {e}") from e; any other
\* exception passes through
Reraise(e) == IF e.exc = "ValueError" THEN Raise("ValueError", e.mentions) ELSE e

\* normalize_sleep_record once both timestamps are parsed
SleepParsed(record, start, end_utc) ==
  IF ~end_utc.ok THEN Reraise(end_utc)
  ELSE Ok(Update(record,
            [k \in {"start_time_utc", "end_time_utc", "date", "source"} |->
               CASE k = "start_time_utc" -> IsoFormat(start)
                 [] k = "end_time_utc"   -> IsoFormat(end_utc.val)
                 [] k = "date"           -> get_utc_date(start)
                 [] k = "source"         -> Txt("sleep")]))

\* normalize_sleep_record once start_time is parsed
SleepStartParsed(record, start_utc) ==
  IF ~start_utc.ok THEN Reraise(start_utc)
  ELSE IF "end_time" \notin DOMAIN record THEN Raise("KeyError", <<Txt("end_time")>>)
  ELSE SleepParsed(record, start_utc.val, parse_utc_timestamp(record["end_time"]))

normalize_sleep_record(record) ==
  IF "start_time" \notin DOMAIN record THEN Raise("KeyError", <<Txt("start_time")>>)
  ELSE SleepStartParsed(record, parse_utc_timestamp(record["start_time"]))

\* mutant: the converted time is written back to the timestamp field
WorkoutParsed_RewritesTimestamp(record, parsed) ==
  IF ~parsed.ok THEN Reraise(parsed)
  ELSE Ok(Update(record,
            [k \in {"timestamp", "timestamp_utc", "timestamp_local", "local_date",
                    "date", "source"} |->
               CASE k = "timestamp"       -> <<"loc", parsed.val[1].y, parsed.val[1].mo,
                                               parsed.val[1].d, parsed.val[1].h,
                                               parsed.val[1].mi, parsed.val[1].s>>
                 [] k = "timestamp_utc"   -> IsoFormat(parsed.val[1])
                 [] k = "timestamp_local" -> record["timestamp"]
                 [] k = "local_date"      -> parsed.val[2]
                 [] k = "date"            -> get_utc_date(parsed.val[1])
                 [] k = "source"          -> Txt("workout")]))
\* normalize_workout_record once the timestamp is parsed
WorkoutParsed(record, parsed) ==
  IF ~parsed.ok THEN Reraise(parsed)
  ELSE Ok(Update(record,
            [k \in {"timestamp_utc", "timestamp_local", "local_date", "date", "source"} |->
               CASE k = "timestamp_utc"   -> IsoFormat(parsed.val[1])
                 [] k = "timestamp_local" -> record["timestamp"]
                 [] k = "local_date"      -> parsed.val[2]
                 [] k = "date"            -> get_utc_date(parsed.val[1])
                 [] k = "source"          -> Txt("workout")]))

normalize_workout_record(record) ==
  IF "timestamp" \notin DOMAIN record THEN Raise("KeyError", <<Txt("timestamp")>>)
  ELSE IF "timezone" \notin DOMAIN record THEN Raise("KeyError", <<Txt("timezone")>>)
  ELSE WorkoutParsed(record,
         parse_local_timestamp(record["timestamp"], record["timezone"]))

-----------------------------------------------------------------------------
(* DataMerger.  A dict keyed by date is a sequence of entries in insertion  *)
(* order, one entry per key.                                                *)

EmptyBucket == [sleep |-> <<>>, workouts |-> <<>>]

Keys(m) == [i \in 1..Len(m) |-> m[i].date]

HasKey(m, date) == \E i \in 1..Len(m) : m[i].date = date

Lookup(m, date) == LET i == CHOOSE i \in 1..Len(m) : m[i].date = date IN m[i].bucket

\* mutant: the record replaces the bucket's sequence instead of extending it
AppendTo_Overwrite(m, date, kind, record) ==
  LET m1 == IF HasKey(m, date) THEN m
            ELSE Append(m, [date |-> date, bucket |-> EmptyBucket])
  IN  [i \in 1..Len(m1) |->
         IF m1[i].date = date
           THEN [m1[i] EXCEPT !.bucket[kind] = <<record>>]
           ELSE m1[i]]

\* merged[date][kind].append(record) on a defaultdict
AppendTo(m, date, kind, record) ==
  LET m1 == IF HasKey(m, date) THEN m
            ELSE Append(m, [date |-> date, bucket |-> EmptyBucket])
  IN  [i \in 1..Len(m1) |->
         IF m1[i].date = date
           THEN [m1[i] EXCEPT !.bucket[kind] = Append(@, record)]
           ELSE m1[i]]

RECURSIVE AppendAll(_, _, _)
AppendAll(m, kind, records) ==
  IF records = <<>> THEN m
  ELSE AppendAll(AppendTo(m, Head(records)["date"], kind, Head(records)),
                 kind, Tail(records))

\* mutant: a workout whose date no sleep record has is not given a bucket
merge_by_date_SleepDriven(sleep, workouts) ==
  LET m == AppendAll(<<>>, "sleep", sleep)
  IN  AppendAll(m, "workouts", SelectSeq(workouts, LAMBDA r : HasKey(m, r["date"])))

merge_by_date(sleep, workouts) ==
  AppendAll(AppendAll(<<>>, "sleep", sleep), "workouts", workouts)

RECURSIVE SumField(_, _)
\* sum(r.get(field, 0) for r in records)
SumField(records, field) ==
  IF records = <<>> THEN 0
  ELSE IntOf(Get(Head(records), field, Int_(0))) + SumField(Tail(records), field)

RECURSIVE Gcd(_, _)
Gcd(a, b) == IF b = 0 THEN a ELSE Gcd(b, a % b)

\* mutant: floor division in place of true division
TrueDiv_Floor(n, d) == [num |-> n \div d, den |-> 1]

\* the quotient n / d of true division, as a fraction in lowest terms
TrueDiv(n, d) ==
  LET g == Gcd(IF n < 0 THEN -n ELSE n, d) IN [num |-> n \div g, den |-> d \div g]

Zero == [num |-> 0, den |-> 1]

create_daily_summary(date, sleep, workouts) ==
  [date |-> date,
   sleep |->
     [count |-> Len(sleep),
      total_duration_hours |-> SumField(sleep, "duration_hours"),
      average_quality_score |->
        IF sleep # <<>> THEN TrueDiv(SumField(sleep, "quality_score"), Len(sleep))
        ELSE Zero,
      records |-> sleep],
   workouts |->
     [count |-> Len(workouts),
      total_duration_minutes |-> SumField(workouts, "duration_minutes"),
      total_calories_burned |-> SumField(workouts, "calories_burned"),
      records |-> workouts]]

RECURSIVE StrLess(_, _)
\* a < b on Python strings: lexicographic order of the character codes
StrLess(a, b) ==
  IF Len(b) <= 1 THEN FALSE
  ELSE IF Len(a) <= 1 THEN TRUE
  ELSE IF a[2] # b[2] THEN a[2] < b[2]
  ELSE StrLess(<<"str">> \o SubSeq(a, 3, Len(a)), <<"str">> \o SubSeq(b, 3, Len(b)))

RECURSIVE Insert(_, _)
Insert(sorted, k) ==
  IF sorted = <<>> THEN <<k>>
  ELSE IF StrLess(k, Head(sorted)) THEN <<k>> \o sorted
  ELSE <<Head(sorted)>> \o Insert(Tail(sorted), k)

\* mutant: the keys are taken in insertion order
Sorted_Unsorted(keys) == keys

RECURSIVE Sorted(_)
\* sorted(keys)
Sorted(keys) ==
  IF keys = <<>> THEN <<>>
  ELSE Insert(Sorted(SubSeq(keys, 1, Len(keys) - 1)), keys[Len(keys)])

generate_merged_report(merged) ==
  LET order == Sorted(Keys(merged))
  IN  [i \in 1..Len(order) |->
         create_daily_summary(order[i], Lookup(merged, order[i]).sleep,
                              Lookup(merged, order[i]).workouts)]

-----------------------------------------------------------------------------
(* HealthMetrics *)

\* mutant: <= in place of <
Qualifies_AtMost(day, t) == day.sleep.count # 0 /\ day.sleep.total_duration_hours <= t

\* the days of the report whose calories the loop accumulates
Qualifies(day, t) == day.sleep.count # 0 /\ day.sleep.total_duration_hours < t

RECURSIVE Accumulate(_, _)
\* <<total_calories, count>> after the loop over the report
Accumulate(data, t) ==
  IF data = <<>> THEN <<0, 0>>
  ELSE LET rest == Accumulate(SubSeq(data, 1, Len(data) - 1), t)
           day  == data[Len(data)]
       IN  IF Qualifies(day, t)
             THEN <<rest[1] + day.workouts.total_calories_burned, rest[2] + 1>>
             ELSE rest

\* the quotient rounded toward zero
TruncDiv(a, b) == IF a >= 0 THEN a \div b ELSE -((-a) \div b)

\* total_calories // count: Python's // rounds toward minus infinity
FloorDiv(a, b) == a \div b

find_avg_calories_by_sleep(data, t) ==
  LET acc == Accumulate(data, t)
  IN  IF acc[2] > 0 THEN FloorDiv(acc[1], acc[2]) ELSE 0

-----------------------------------------------------------------------------
(* HealthDataAggregator *)

\* record.get('id') or record.get('workout_id') of the warning
IdOf(record, kind) == Get(record, IF kind = "sleep" THEN "id" ELSE "workout_id", NoneVal)

NormalizeRecord(record, kind) ==
  IF kind = "sleep" THEN normalize_sleep_record(record)
  ELSE normalize_workout_record(record)

RECURSIVE NormalizeLoop(_, _, _)
\* mutant: the loop shares a failure flag, a record that follows a skipped
\* record is skipped too
LoopStep_SharedFailure(records, kind, acc, r) ==
  IF r.ok /\ acc.warnings = <<>>
    THEN NormalizeLoop(Tail(records), kind, [acc EXCEPT !.out = Append(@, r.val)])
  ELSE IF r.ok \/ r.exc = "ValueError"
    THEN NormalizeLoop(Tail(records), kind,
           [acc EXCEPT !.warnings =
              Append(@, [kind |-> kind, id |-> IdOf(Head(records), kind),
                         mentions |-> IF r.ok THEN <<>> ELSE r.mentions])])
  ELSE [acc EXCEPT !.crashed = TRUE]
\* the body of a loop of normalize_data for the outcome r of the first record:
\* a ValueError becomes a warning, any other exception leaves the loop and
\* the call
LoopStep(records, kind, acc, r) ==
  IF r.ok
    THEN NormalizeLoop(Tail(records), kind, [acc EXCEPT !.out = Append(@, r.val)])
  ELSE IF r.exc = "ValueError"
    THEN NormalizeLoop(Tail(records), kind,
           [acc EXCEPT !.warnings =
              Append(@, [kind |-> kind, id |-> IdOf(Head(records), kind),
                         mentions |-> r.mentions])])
  ELSE [acc EXCEPT !.crashed = TRUE]

\* one of the two loops of normalize_data
NormalizeLoop(records, kind, acc) ==
  IF records = <<>> THEN acc
  ELSE LoopStep(records, kind, acc, NormalizeRecord(Head(records), kind))

\* the second loop and the return of normalize_data, s the first loop's result
WorkoutLoop(s, w) ==
  [crashed |-> w.crashed, sleep |-> s.out, workouts |-> w.out, warnings |-> w.warnings]

SleepLoopDone(s, workouts) ==
  IF s.crashed
    THEN [crashed |-> TRUE, sleep |-> s.out, workouts |-> <<>>, warnings |-> s.warnings]
    ELSE WorkoutLoop(s, NormalizeLoop(workouts, "workout",
                          [crashed |-> FALSE, out |-> <<>>, warnings |-> s.warnings]))

normalize_data(sleep, workouts) ==
  SleepLoopDone(NormalizeLoop(sleep, "sleep",
                  [crashed |-> FALSE, out |-> <<>>, warnings |-> <<>>]), workouts)

NoMetadata ==
  [sleep_records_processed |-> 0, workout_records_processed |-> 0,
   dates_covered |-> 0, date_range |-> [start |-> NoneVal, end |-> NoneVal]]

\* mutant: the dates are counted from the sleep records alone
Metadata_SleepDates(ns, nw, merged) ==
  LET order == Sorted(Keys(merged))
  IN  [sleep_records_processed |-> Len(ns),
       workout_records_processed |-> Len(nw),
       dates_covered |-> Len(AppendAll(<<>>, "sleep", ns)),
       date_range |-> [start |-> IF merged # <<>> THEN order[1] ELSE NoneVal,
                       end |-> IF merged # <<>> THEN order[Len(order)] ELSE NoneVal]]
\* the metadata part of the result of run()
Metadata(ns, nw, merged) ==
  LET order == Sorted(Keys(merged))
  IN  [sleep_records_processed |-> Len(ns),
       workout_records_processed |-> Len(nw),
       dates_covered |-> Len(merged),
       date_range |-> [start |-> IF merged # <<>> THEN order[1] ELSE NoneVal,
                       end |-> IF merged # <<>> THEN order[Len(order)] ELSE NoneVal]]

-----------------------------------------------------------------------------
(* Inputs *)

Iso(y, mo, d, h, mi, sfx, off) == <<"iso", y, mo, d, h, mi, 0, sfx, off>>

Loc(y, mo, d, h, mi) == <<"loc", y, mo, d, h, mi, 0>>

Invalid == <<"bad", 0>>

\* records of a sleep file: well formed ones on two dates, one with a numeric
\* offset, one with a malformed start, one without start_time, one carrying
\* keys the normalizer also writes
SleepInputs ==
  { [id |-> Txt("s1"), start_time |-> Iso(2023, 10, 1, 8, 0, 1, 0),
     end_time |-> Iso(2023, 10, 1, 16, 0, 1, 0),
     duration_hours |-> Int_(8), quality_score |-> Int_(85)],
    [id |-> Txt("s2"), start_time |-> Iso(2023, 10, 1, 22, 0, 2, 0),
     end_time |-> Iso(2023, 10, 2, 3, 0, 1, 0),
     duration_hours |-> Int_(5), quality_score |-> Int_(70)],
    [id |-> Txt("s3"), start_time |-> Iso(2023, 10, 2, 23, 30, 2, -300),
     end_time |-> Iso(2023, 10, 3, 5, 30, 2, -300),
     duration_hours |-> Int_(6), quality_score |-> Int_(60)],
    [id |-> Txt("s4"), start_time |-> Invalid,
     end_time |-> Iso(2023, 10, 1, 16, 0, 1, 0),
     duration_hours |-> Int_(7), quality_score |-> Int_(50)],
    [id |-> Txt("s5"), device |-> Txt("tracker"), duration_hours |-> Int_(7)],
    [id |-> Txt("s6"), start_time |-> Iso(2023, 9, 30, 21, 0, 1, 0),
     end_time |-> Iso(2023, 10, 1, 4, 0, 1, 0),
     date |-> Txt("raw"), source |-> Txt("device"), quality_score |-> Int_(90)] }

\* records of a workout file
WorkoutInputs ==
  { [workout_id |-> Txt("w1"), timestamp |-> Loc(2023, 10, 1, 15, 30),
     timezone |-> Txt("PST"), duration_minutes |-> Int_(45),
     calories_burned |-> Int_(300)],
    [workout_id |-> Txt("w2"), timestamp |-> Loc(2023, 10, 1, 23, 45),
     timezone |-> Txt("PST"), duration_minutes |-> Int_(60),
     calories_burned |-> Int_(501)],
    [workout_id |-> Txt("w3"), timestamp |-> Loc(2023, 10, 1, 15, 30),
     timezone |-> Txt("INVALID"), duration_minutes |-> Int_(30),
     calories_burned |-> Int_(100)],
    [workout_id |-> Txt("w4"), timestamp |-> Loc(2023, 10, 1, 15, 30),
     calories_burned |-> Int_(100)],
    [workout_id |-> Txt("w5"), timestamp |-> Loc(2023, 10, 1, 10, 0),
     timezone |-> Txt("UTC"), duration_minutes |-> Int_(10),
     calories_burned |-> Int_(-3)],
    [workout_id |-> Txt("w6"), timestamp |-> Loc(2023, 9, 30, 20, 0),
     timezone |-> Txt("EST"), local_date |-> Txt("raw"), source |-> Txt("app"),
     calories_burned |-> Int_(200)] }

BoundedSeq(S, n) == UNION {[1..k -> S] : k \in 0..n}

\* thresholds of the query: below, between, equal to and above the durations
Thresholds == {0, 6, 8, 9}

\* civil dates around the daylight saving transitions, month ends, a leap day
\* and a date that does not exist
CivilDates ==
  { <<2023, 3, 11>>, <<2023, 3, 12>>, <<2023, 10, 1>>, <<2023, 10, 31>>,
    <<2023, 11, 5>>, <<2023, 12, 31>>, <<2024, 2, 28>>, <<2024, 2, 29>>,
    <<2023, 2, 29>> }

LocalTexts ==
  { Loc(c[1], c[2], c[3], h, mi) : c \in CivilDates, h \in 0..24, mi \in {0, 59} }
    \cup { Invalid, Iso(2023, 10, 1, 8, 0, 1, 0), Int_(5) }

Labels ==
  { Txt(k) : k \in DOMAIN TIMEZONE_MAP } \cup { Txt("INVALID"), Txt("pst"), NoneVal }

UtcDates == { <<2023, 10, 1>>, <<2023, 12, 31>>, <<2024, 2, 29>>, <<2023, 2, 29>> }

Suffixes == { <<0, 0>>, <<1, 0>>, <<2, 0>>, <<2, -300>>, <<2, 330>> }

UtcTexts ==
  { Iso(c[1], c[2], c[3], h, mi, x[1], x[2]) :
      c \in UtcDates, h \in {0, 8, 23}, mi \in {0, 30}, x \in Suffixes }
    \cup { Invalid, Loc(2023, 10, 1, 23, 45), NoneVal }

EndTexts ==
  { Iso(2023, 10, 1, 16, 0, 1, 0), Iso(2024, 1, 1, 2, 0, 2, 330), Invalid }

\* the fields of a raw record besides its timestamps: none, the usual ones, or
\* ones named like the fields the normalizer writes
SleepExtras ==
  { <<>>,
    [id |-> Txt("s1"), duration_hours |-> Int_(8), quality_score |-> Int_(85)],
    [id |-> Txt("s6"), date |-> Txt("raw"), source |-> Txt("device"),
     start_time_utc |-> Txt("raw")] }

WorkoutExtras ==
  { <<>>,
    [workout_id |-> Txt("w1"), duration_minutes |-> Int_(45),
     calories_burned |-> Int_(300)],
    [workout_id |-> Txt("w6"), local_date |-> Txt("raw"), source |-> Txt("app"),
     timestamp_local |-> Txt("raw")] }

-----------------------------------------------------------------------------
(* The pipeline of HealthDataAggregator.run and direct calls *)

\* no second run has been made
NoRerun == [crashed |-> FALSE, warnings |-> <<>>, report |-> <<>>]

\* the positions of the two input lists whose records have been normalized
NoneProcessed == [sleep |-> {}, workout |-> {}]
Init ==
  /\ pc = "start"
  /\ sleep_records = <<>>
  /\ workout_records = <<>>
  /\ normalized_sleep = <<>>
  /\ normalized_workouts = <<>>
  /\ warnings = <<>>
  /\ merged_data = <<>>
  /\ report = <<>>
  /\ metadata = NoMetadata
  /\ threshold = 0
  /\ avg_calories = 0
  /\ unit = [fn |-> "none"]
  /\ rerun = NoRerun
  /\ processed = NoneProcessed

\* run, step 1: the two files are loaded
LoadData ==
  /\ pc = "start"
  /\ \E s \in BoundedSeq(SleepInputs, MaxSleep), w \in BoundedSeq(WorkoutInputs, MaxWorkouts) :
       /\ sleep_records' = s
       /\ workout_records' = w
  /\ pc' = "loaded"
  /\ UNCHANGED <<normalized_sleep, normalized_workouts, warnings, merged_data,
                 report, metadata, threshold, avg_calories, unit,
                 rerun, processed>>

\* run, step 2: normalize_data; an exception other than ValueError ends the run
NormalizeData ==
  /\ pc = "loaded"
  /\ \E r \in {normalize_data(sleep_records, workout_records)} :
       /\ normalized_sleep' = r.sleep
       /\ normalized_workouts' = r.workouts
       /\ warnings' = r.warnings
       /\ pc' = IF r.crashed THEN "crashed" ELSE "normalized"
  /\ UNCHANGED <<sleep_records, workout_records, merged_data, report, metadata,
                 threshold, avg_calories, unit,
                 rerun, processed>>

\* run, step 3
MergeByDate ==
  /\ pc = "normalized"
  /\ merged_data' = merge_by_date(normalized_sleep, normalized_workouts)
  /\ pc' = "merged"
  /\ UNCHANGED <<sleep_records, workout_records, normalized_sleep,
                 normalized_workouts, warnings, report, metadata, threshold,
                 avg_calories, unit,
                 rerun, processed>>

\* run, steps 4 and 5: the report and the result's metadata
GenerateReport ==
  /\ pc = "merged"
  /\ report' = generate_merged_report(merged_data)
  /\ metadata' = Metadata(normalized_sleep, normalized_workouts, merged_data)
  /\ pc' = "reported"
  /\ UNCHANGED <<sleep_records, workout_records, normalized_sleep,
                 normalized_workouts, warnings, merged_data, threshold,
                 avg_calories, unit,
                 rerun, processed>>

\* a consumer of the result queries the metric
FindAvgCalories ==
  /\ pc = "reported"
  /\ \E t \in Thresholds :
       /\ threshold' = t
       /\ avg_calories' = find_avg_calories_by_sleep(report, t)
  /\ pc' = "queried"
  /\ UNCHANGED <<sleep_records, workout_records, normalized_sleep,
                 normalized_workouts, warnings, merged_data, report, metadata,
                 unit,
                 rerun, processed>>

RECURSIVE ReportRecords(_, _)
\* the normalized records of one kind that a report holds, day after day
ReportRecords(rep, kind) ==
  IF rep = <<>> THEN <<>>
  ELSE Head(rep)[kind].records \o ReportRecords(Tail(rep), kind)

\* the pipeline is run a second time, on the normalized records of the report
Rerun ==
  /\ pc = "reported"
  /\ \E r \in {normalize_data(ReportRecords(report, "sleep"),
                              ReportRecords(report, "workouts"))} :
       rerun' = [crashed |-> r.crashed, warnings |-> r.warnings,
                 report |-> generate_merged_report(merge_by_date(r.sleep, r.workouts))]
  /\ pc' = "rerun"
  /\ UNCHANGED <<sleep_records, workout_records, normalized_sleep,
                 normalized_workouts, warnings, merged_data, report, metadata,
                 threshold, avg_calories, unit, processed>>
\* a direct call of parse_local_timestamp
CallParseLocal ==
  /\ pc = "start"
  /\ \E ts \in LocalTexts, tz \in Labels :
       unit' = [fn |-> "parse_local_timestamp", ts |-> ts, tz |-> tz,
                ret |-> parse_local_timestamp(ts, tz)]
  /\ pc' = "unit"
  /\ UNCHANGED <<sleep_records, workout_records, normalized_sleep,
                 normalized_workouts, warnings, merged_data, report, metadata,
                 threshold, avg_calories,
                 rerun, processed>>

\* a direct call of normalize_workout_record
CallNormalizeWorkout ==
  /\ pc = "start"
  /\ \E ts \in LocalTexts, tz \in Labels, x \in WorkoutExtras :
       LET record == [timestamp |-> ts, timezone |-> tz] @@ x IN
       unit' = [fn |-> "normalize_workout_record", record |-> record,
                ret |-> normalize_workout_record(record)]
  /\ pc' = "unit"
  /\ UNCHANGED <<sleep_records, workout_records, normalized_sleep,
                 normalized_workouts, warnings, merged_data, report, metadata,
                 threshold, avg_calories,
                 rerun, processed>>

\* a direct call of normalize_sleep_record
CallNormalizeSleep ==
  /\ pc = "start"
  /\ \E st \in UtcTexts, en \in EndTexts, x \in SleepExtras :
       LET record == [start_time |-> st, end_time |-> en] @@ x IN
       unit' = [fn |-> "normalize_sleep_record", record |-> record,
                ret |-> normalize_sleep_record(record)]
  /\ pc' = "unit"
  /\ UNCHANGED <<sleep_records, workout_records, normalized_sleep,
                 normalized_workouts, warnings, merged_data, report, metadata,
                 threshold, avg_calories,
                 rerun, processed>>

Next ==
  \/ LoadData
  \/ NormalizeData
  \/ MergeByDate
  \/ GenerateReport
  \/ FindAvgCalories
  \/ Rerun
  \/ CallParseLocal
  \/ CallNormalizeWorkout
  \/ CallNormalizeSleep

Spec == Init /\ [][Next]_vars

-----------------------------------------------------------------------------
(* The records of a batch normalized one at a time, in any order *)

\* the records of the two files: usable ones that share a date, one that is
\* skipped, one that lacks a field
OrderSleepInputs ==
  { r \in SleepInputs : r["id"] \in {Txt("s1"), Txt("s2"), Txt("s4"), Txt("s5")} }

OrderWorkoutInputs ==
  { r \in WorkoutInputs : r["workout_id"] \in {Txt("w1"), Txt("w2"), Txt("w3")} }

LoadBatch ==
  /\ pc = "start"
  /\ \E s \in BoundedSeq(OrderSleepInputs, MaxBatch),
        w \in BoundedSeq(OrderWorkoutInputs, MaxBatch) :
       /\ sleep_records' = s
       /\ workout_records' = w
  /\ pc' = "loaded"
  /\ UNCHANGED <<normalized_sleep, normalized_workouts, warnings, merged_data,
                 report, metadata, threshold, avg_calories, unit, rerun, processed>>

RecordsOf(kind) == IF kind = "sleep" THEN sleep_records ELSE workout_records

Pending(kind) == (1..Len(RecordsOf(kind))) \ processed[kind]

\* the body of a loop of normalize_data for one record, out the list of its
\* kind collected so far
OneStep(kind, record, out) ==
  LoopStep(<<record>>, kind, [crashed |-> FALSE, out |-> out, warnings |-> warnings],
           NormalizeRecord(record, kind))

\* one record of a file that is not yet normalized is normalized
NormalizeOne(kind) ==
  /\ pc = "loaded"
  /\ \E i \in Pending(kind) :
       /\ processed' = [processed EXCEPT ![kind] = @ \cup {i}]
       /\ \E a \in {OneStep(kind, RecordsOf(kind)[i],
                            IF kind = "sleep" THEN normalized_sleep
                            ELSE normalized_workouts)} :
            /\ normalized_sleep' = IF kind = "sleep" THEN a.out ELSE normalized_sleep
            /\ normalized_workouts' =
                 IF kind = "workout" THEN a.out ELSE normalized_workouts
            /\ warnings' = a.warnings
            /\ pc' = IF a.crashed THEN "crashed" ELSE "loaded"
  /\ UNCHANGED <<sleep_records, workout_records, merged_data, report, metadata,
                 threshold, avg_calories, unit, rerun>>

\* every record has been normalized or skipped: normalize_data returns
AllNormalized ==
  /\ pc = "loaded"
  /\ Pending("sleep") = {}
  /\ Pending("workout") = {}
  /\ pc' = "normalized"
  /\ UNCHANGED <<sleep_records, workout_records, normalized_sleep,
                 normalized_workouts, warnings, merged_data, report, metadata,
                 threshold, avg_calories, unit, rerun, processed>>

NextOrder ==
  \/ LoadBatch
  \/ NormalizeOne("sleep")
  \/ NormalizeOne("workout")
  \/ AllNormalized
  \/ MergeByDate
  \/ GenerateReport

SpecOrder == Init /\ [][NextOrder]_vars

-----------------------------------------------------------------------------
(* Vocabulary of the properties *)

AfterNormalize == pc \in {"normalized", "crashed", "merged", "reported", "queried"}

AfterMerge == pc \in {"merged", "reported", "queried"}

AfterReport == pc \in {"reported", "queried"}

Range(seq) == {seq[i] : i \in 1..Len(seq)}

Occurrences(seq, x) == Cardinality({i \in 1..Len(seq) : seq[i] = x})

RECURSIVE SumTo(_, _)
\* vals[1] + ... + vals[n]
SumTo(vals, n) == IF n = 0 THEN 0 ELSE SumTo(vals, n - 1) + vals[n]

\* the numbers a field has along a sequence of records, 0 where it is missing
FieldValues(records, field) ==
  [i \in 1..Len(records) |->
     IF field \in DOMAIN records[i] THEN records[i][field][2] ELSE 0]

RECURSIVE Flatten(_, _, _)
\* the records of one kind held by the first n buckets
Flatten(m, kind, n) ==
  IF n = 0 THEN <<>> ELSE Flatten(m, kind, n - 1) \o m[n].bucket[kind]

\* the day number of the date a "YYYY-MM-DD" string denotes
DayNumberOf(str) ==
  DaysFromCivil((str[2] - 48) * 1000 + (str[3] - 48) * 100 + (str[4] - 48) * 10 + (str[5] - 48),
                (str[7] - 48) * 10 + (str[8] - 48),
                (str[10] - 48) * 10 + (str[11] - 48))

RemoveAt(seq, i) == SubSeq(seq, 1, i - 1) \o SubSeq(seq, i + 1, Len(seq))

-----------------------------------------------------------------------------
(* C1 *)

\* C1: normalize_data never aborts on a bad record: the call returns, every
\* record whose normalization fails is absent from the returned collections
\* and every record that normalizes is present in the collection of its kind.
C1_NeverAborts ==
  AfterNormalize =>
    /\ pc # "crashed"
    /\ \A i \in 1..Len(sleep_records) :
         LET r == normalize_sleep_record(sleep_records[i])
         IN  IF r.ok THEN r.val \in Range(normalized_sleep)
             ELSE \A n \in Range(normalized_sleep) : n["id"] # sleep_records[i]["id"]
    /\ \A i \in 1..Len(workout_records) :
         LET r == normalize_workout_record(workout_records[i])
         IN  IF r.ok THEN r.val \in Range(normalized_workouts)
             ELSE \A n \in Range(normalized_workouts) :
                    n["workout_id"] # workout_records[i]["workout_id"]

-----------------------------------------------------------------------------
(* C2 *)

\* C2: for every sleep record normalize_sleep_record accepts, the instant
\* parsed from start_time carries zero UTC offset, `date` is the UTC calendar
\* date of that instant, and `date` is the same whatever end_time is.
C2_DateIsUtcDateOfStart ==
  (unit.fn = "normalize_sleep_record" /\ unit.ret.ok) =>
    LET start == parse_utc_timestamp(unit.record["start_time"]).val IN
      /\ start.aware /\ start.off = 0
      /\ unit.ret.val["date"] =
           FormatDate(ToUtc(start).y, ToUtc(start).mo, ToUtc(start).d)
      /\ \A en \in EndTexts :
           LET other == normalize_sleep_record([unit.record EXCEPT !["end_time"] = en])
           IN  other.ok => other.val["date"] = unit.ret.val["date"]

-----------------------------------------------------------------------------
(* C3 *)

\* the case of C3: a registered label, a well formed civil time, a negative
\* offset of the zone at that civil time, and a time of day no more than the
\* offset before the following midnight
DayBoundaryCase(ts, tz) ==
  /\ Tag(ts) = "loc" /\ ValidFields(ts[2], ts[3], ts[4], ts[5], ts[6], ts[7])
  /\ Tag(tz) = "txt" /\ tz[2] \in DOMAIN TIMEZONE_MAP
  /\ LET off == UtcOffset(TIMEZONE_MAP[tz[2]], ts[2], ts[3], ts[4], ts[5])
     IN  off < 0 /\ ts[5] * 60 + ts[6] >= 1440 + off

\* C3: day boundary: in a zone with a negative offset, a civil time on date D
\* within the offset before the following midnight gets the canonical date
\* D plus one day from parse_local_timestamp and normalize_workout_record,
\* while local_date stays D.
C3_DayBoundary ==
  /\ (unit.fn = "parse_local_timestamp" /\ DayBoundaryCase(unit.ts, unit.tz)) =>
       /\ unit.ret.ok
       /\ DaysFromCivil(unit.ret.val[1].y, unit.ret.val[1].mo, unit.ret.val[1].d)
            = DaysFromCivil(unit.ts[2], unit.ts[3], unit.ts[4]) + 1
       /\ ValidFields(unit.ret.val[1].y, unit.ret.val[1].mo, unit.ret.val[1].d,
                      unit.ret.val[1].h, unit.ret.val[1].mi, unit.ret.val[1].s)
       /\ unit.ret.val[1].aware /\ unit.ret.val[1].off = 0
       /\ unit.ret.val[2] = FormatDate(unit.ts[2], unit.ts[3], unit.ts[4])
  /\ (/\ unit.fn = "normalize_workout_record"
      /\ DayBoundaryCase(unit.record["timestamp"], unit.record["timezone"])) =>
       /\ unit.ret.ok
       /\ DayNumberOf(unit.ret.val["date"])
            = DaysFromCivil(unit.record["timestamp"][2], unit.record["timestamp"][3],
                            unit.record["timestamp"][4]) + 1
       /\ unit.ret.val["local_date"] =
            FormatDate(unit.record["timestamp"][2], unit.record["timestamp"][3],
                       unit.record["timestamp"][4])

\* a late civil time on the day daylight saving time begins has been parsed
C3_Witness ==
  /\ unit.fn = "parse_local_timestamp"
  /\ DayBoundaryCase(unit.ts, unit.tz)
  /\ unit.ts[3] = 3 /\ unit.ts[4] = 12 /\ unit.ts[5] = 17
  /\ unit.ret.ok /\ unit.ret.val[1].d = 13

-----------------------------------------------------------------------------
(* C4 *)

\* C4: merge_by_date is a partition: every input record is in exactly one
\* bucket, the one keyed by its own date and in the sequence of its kind, and
\* the buckets together hold exactly the input records, as often as the
\* inputs do.
C4_Partition ==
  AfterMerge =>
    /\ \A i, j \in 1..Len(merged_data) :
         merged_data[i].date = merged_data[j].date => i = j
    /\ \A i \in 1..Len(merged_data) :
         /\ \A r \in Range(merged_data[i].bucket.sleep) : r["date"] = merged_data[i].date
         /\ \A r \in Range(merged_data[i].bucket.workouts) : r["date"] = merged_data[i].date
    /\ LET allSleep    == Flatten(merged_data, "sleep", Len(merged_data))
           allWorkouts == Flatten(merged_data, "workouts", Len(merged_data))
       IN  /\ \A r \in Range(allSleep) \cup Range(normalized_sleep) :
                Occurrences(allSleep, r) = Occurrences(normalized_sleep, r)
           /\ \A r \in Range(allWorkouts) \cup Range(normalized_workouts) :
                Occurrences(allWorkouts, r) = Occurrences(normalized_workouts, r)

\* two sleep records of one date and a workout of another date were merged
C4_Witness ==
  /\ pc = "merged"
  /\ Len(merged_data) >= 2
  /\ \E i \in 1..Len(merged_data) : Len(merged_data[i].bucket.sleep) = 2
  /\ Len(normalized_workouts) >= 1

-----------------------------------------------------------------------------
(* C5 *)

\* C5: the keys of merge_by_date's result are exactly the dates seen in either
\* collection, every bucket has a sleep and a workouts sequence, and a date
\* seen in one stream only has an empty sequence for the other kind.
C5_KeysAreUnionOfDates ==
  AfterMerge =>
    /\ Range(Keys(merged_data)) =
         {r["date"] : r \in Range(normalized_sleep)}
           \cup {r["date"] : r \in Range(normalized_workouts)}
    /\ \A i \in 1..Len(merged_data) :
         /\ DOMAIN merged_data[i].bucket = {"sleep", "workouts"}
         /\ (\A r \in Range(normalized_sleep) : r["date"] # merged_data[i].date)
              => merged_data[i].bucket.sleep = <<>>
         /\ (\A r \in Range(normalized_workouts) : r["date"] # merged_data[i].date)
              => merged_data[i].bucket.workouts = <<>>

\* a date that only a workout has and a date that only a sleep record has
C5_Witness ==
  /\ pc = "merged"
  /\ \E i \in 1..Len(merged_data) :
       merged_data[i].bucket.sleep = <<>> /\ merged_data[i].bucket.workouts # <<>>
  /\ \E i \in 1..Len(merged_data) :
       merged_data[i].bucket.sleep # <<>> /\ merged_data[i].bucket.workouts = <<>>

-----------------------------------------------------------------------------
(* C6 *)

\* C6: generate_merged_report returns one summary per key of the mapping, the
\* summaries' dates strictly increase in the lexicographic order of the
\* strings whatever the insertion order, and an empty mapping gives an empty
\* sequence.
C6_ReportSortedByDate ==
  AfterReport =>
    /\ Len(report) = Len(merged_data)
    /\ {report[i].date : i \in 1..Len(report)} = Range(Keys(merged_data))
    /\ \A i, j \in 1..Len(report) : i < j => StrLess(report[i].date, report[j].date)

\* the keys were inserted in an order that is not the ascending one
C6_Witness ==
  /\ pc = "reported"
  /\ Len(report) >= 2
  /\ \E i \in 1..Len(merged_data) : merged_data[i].date # report[i].date

-----------------------------------------------------------------------------
(* C7 *)

\* C7: create_daily_summary gives, for the sequences of a bucket: sleep count
\* = length, total_duration_hours = sum of duration_hours,
\* average_quality_score = sum of quality_score divided by count and exactly
\* 0 for an empty sleep sequence; workout count = length,
\* total_duration_minutes and total_calories_burned = the sums.
C7_DailySummary ==
  AfterReport =>
    \A i \in 1..Len(report) :
      LET b == Lookup(merged_data, report[i].date)
          s == report[i].sleep
          w == report[i].workouts
          qsum == SumTo(FieldValues(b.sleep, "quality_score"), Len(b.sleep))
      IN  /\ s.count = Len(b.sleep)
          /\ s.total_duration_hours =
               SumTo(FieldValues(b.sleep, "duration_hours"), Len(b.sleep))
          /\ s.average_quality_score.den > 0
          /\ s.average_quality_score.num * s.count = qsum * s.average_quality_score.den
          /\ b.sleep = <<>> => s.average_quality_score = Zero
          /\ s.records = b.sleep
          /\ w.count = Len(b.workouts)
          /\ w.total_duration_minutes =
               SumTo(FieldValues(b.workouts, "duration_minutes"), Len(b.workouts))
          /\ w.total_calories_burned =
               SumTo(FieldValues(b.workouts, "calories_burned"), Len(b.workouts))
          /\ w.records = b.workouts

\* a day whose average quality is not a whole number and a day without sleep
C7_Witness ==
  /\ pc = "reported"
  /\ \E i \in 1..Len(report) :
       report[i].sleep.count = 2 /\ report[i].sleep.average_quality_score.den = 2
  /\ \E i \in 1..Len(report) :
       report[i].sleep.count = 0 /\ report[i].workouts.count > 0

-----------------------------------------------------------------------------
(* C8 *)

\* a day the claim calls non-qualifying for threshold t
NonQualifying(day, t) == day.sleep.count = 0 \/ day.sleep.total_duration_hours >= t

\* a daily summary with the given sleep count, sleep hours and calories
Day(n, hours, calories) ==
  [date |-> FormatDate(2023, 12, 31),
   sleep |-> [count |-> n, total_duration_hours |-> hours,
              average_quality_score |-> Zero, records |-> <<>>],
   workouts |-> [count |-> 1, total_duration_minutes |-> 0,
                 total_calories_burned |-> calories, records |-> <<>>]]

\* days to add to a report: without sleep, at the threshold, above it
ExtraDays(t) == { Day(0, 0, 999), Day(0, t - 1, 999), Day(1, t, 999), Day(2, t + 1, 999) }

\* C8: find_avg_calories_by_sleep ignores non-qualifying days: removing from
\* the report, or adding to it, a day whose sleep count is 0 or whose total
\* sleep duration is equal to or greater than the threshold leaves the result
\* unchanged; the result is that of the qualifying days alone.
C8_IgnoresNonQualifyingDays ==
  pc = "queried" =>
    /\ \A i \in 1..Len(report) :
         NonQualifying(report[i], threshold) =>
           find_avg_calories_by_sleep(RemoveAt(report, i), threshold) = avg_calories
    /\ \A day \in ExtraDays(threshold) :
         /\ find_avg_calories_by_sleep(Append(report, day), threshold) = avg_calories
         /\ find_avg_calories_by_sleep(<<day>> \o report, threshold) = avg_calories
    /\ find_avg_calories_by_sleep(
         SelectSeq(report, LAMBDA d : ~NonQualifying(d, threshold)), threshold) = avg_calories

\* the report has a day that sleeps exactly the threshold and burns calories,
\* and a day that qualifies
C8_Witness ==
  /\ pc = "queried"
  /\ \E i \in 1..Len(report) :
       /\ report[i].sleep.count # 0
       /\ report[i].sleep.total_duration_hours = threshold
       /\ report[i].workouts.total_calories_burned > 0
  /\ \E i \in 1..Len(report) : ~NonQualifying(report[i], threshold)

-----------------------------------------------------------------------------
(* C9 *)

\* the indices of the days with sleep below the threshold
LowSleepDays == {i \in 1..Len(report) : ~NonQualifying(report[i], threshold)}

\* the calories of the low-sleep days, 0 for the other days
LowSleepCalories ==
  [i \in 1..Len(report) |->
     IF i \in LowSleepDays THEN report[i].workouts.total_calories_burned ELSE 0]

\* C9 as claimed: the result is the truncating division of the accumulated
\* calories by the number of qualifying days, for every value of the
\* accumulated calories, and 0 when no day qualifies.
C9_TruncatingDivision ==
  pc = "queried" =>
    avg_calories =
      IF LowSleepDays # {}
        THEN TruncDiv(SumTo(LowSleepCalories, Len(report)), Cardinality(LowSleepDays))
        ELSE 0

\* C9 as amended: the result is the floor of the accumulated calories divided
\* by the number of qualifying days (rounded toward minus infinity), and 0
\* when no day qualifies, including for an empty report.
C9_FloorDivision ==
  pc = "queried" =>
    LET total == SumTo(LowSleepCalories, Len(report))
        n     == Cardinality(LowSleepDays)
    IN  IF n > 0
          THEN avg_calories * n <= total /\ total < (avg_calories + 1) * n
          ELSE avg_calories = 0

\* two qualifying days whose calories add up to a negative odd number
C9_Witness ==
  /\ pc = "queried"
  /\ Cardinality(LowSleepDays) = 2
  /\ SumTo(LowSleepCalories, Len(report)) = -3
  /\ avg_calories = -2

-----------------------------------------------------------------------------
(* C10 *)

\* the keys normalize_sleep_record and normalize_workout_record write
WrittenKeys(fn) ==
  IF fn = "normalize_sleep_record"
    THEN {"start_time_utc", "end_time_utc", "date", "source"}
    ELSE {"timestamp_utc", "timestamp_local", "local_date", "date", "source"}

NormalizeCall == unit.fn \in {"normalize_sleep_record", "normalize_workout_record"}

\* C10 as claimed: every key of a raw record that normalizes, whatever its
\* name, is in the normalized record with the value the raw record gave it.
C10_EveryFieldUntouched ==
  (NormalizeCall /\ unit.ret.ok) =>
    \A k \in DOMAIN unit.record :
      k \in DOMAIN unit.ret.val /\ unit.ret.val[k] = unit.record[k]

\* C10 as amended: every key of a raw record that normalizes is in the
\* normalized record, and it has the value the raw record gave it unless it
\* is one of the keys the normalizer writes.
C10_OtherFieldsUntouched ==
  (NormalizeCall /\ unit.ret.ok) =>
    \A k \in DOMAIN unit.record :
      /\ k \in DOMAIN unit.ret.val
      /\ k \notin WrittenKeys(unit.fn) => unit.ret.val[k] = unit.record[k]

\* a raw record with fields of its own, one of them named like a written key,
\* has been normalized
C10_Witness ==
  /\ unit.fn = "normalize_sleep_record"
  /\ unit.ret.ok
  /\ {"id", "date", "source"} \subseteq DOMAIN unit.record
  /\ unit.ret.val["id"] = unit.record["id"]
  /\ unit.ret.val["date"] # unit.record["date"]

-----------------------------------------------------------------------------
(* C11 *)

\* the warnings of one kind
WarningsOf(kind) == SelectSeq(warnings, LAMBDA w : w.kind = kind)

\* C11: the metadata of a result is consistent with its report: the sleep
\* count is the sum of the days' sleep counts, the workout count the sum of
\* the days' workout counts, dates_covered the number of daily summaries, and
\* a record skipped during normalization is counted in neither count.
C11_MetadataMatchesReport ==
  AfterReport =>
    /\ metadata.sleep_records_processed =
         SumTo([i \in 1..Len(report) |-> report[i].sleep.count], Len(report))
    /\ metadata.workout_records_processed =
         SumTo([i \in 1..Len(report) |-> report[i].workouts.count], Len(report))
    /\ metadata.dates_covered = Len(report)
    /\ metadata.sleep_records_processed =
         Len(sleep_records) - Len(WarningsOf("sleep"))
    /\ metadata.workout_records_processed =
         Len(workout_records) - Len(WarningsOf("workout"))

\* a result over two days, one of them with workouts only, from a batch of
\* which one sleep record and one workout record were skipped
C11_Witness ==
  /\ pc = "reported"
  /\ Len(WarningsOf("sleep")) = 1
  /\ Len(WarningsOf("workout")) = 1
  /\ metadata.sleep_records_processed = 1
  /\ metadata.workout_records_processed = 1
  /\ metadata.dates_covered = 2

-----------------------------------------------------------------------------
(* C12 *)

\* the label is not a key of the registry
UnknownLabel(tz) == \A k \in DOMAIN TIMEZONE_MAP : tz # Txt(k)

\* the call failed with a ValueError whose message has both texts
FailsNaming(ret, ts, tz) ==
  /\ ~ret.ok
  /\ ret.exc = "ValueError"
  /\ \E i, j \in 1..Len(ret.mentions) : ret.mentions[i] = ts /\ ret.mentions[j] = tz

\* C12: an unknown timezone is never coerced: for a label that is not a key
\* of the registry and any timestamp text, parse_local_timestamp fails with
\* an error naming the timestamp text and the label and returns no instant
\* and no date, and normalize_workout_record fails likewise.
C12_UnknownTimezoneFails ==
  /\ (unit.fn = "parse_local_timestamp" /\ IsStr(unit.ts) /\ UnknownLabel(unit.tz))
       => FailsNaming(unit.ret, unit.ts, unit.tz)
  /\ (unit.fn = "normalize_workout_record" /\ IsStr(unit.record["timestamp"])
        /\ UnknownLabel(unit.record["timezone"]))
       => FailsNaming(unit.ret, unit.record["timestamp"], unit.record["timezone"])

\* a well-formed local timestamp has been given to normalize_workout_record
\* with a label that differs from a registered one by its case only
C12_Witness ==
  /\ unit.fn = "normalize_workout_record"
  /\ unit.record["timestamp"] = Loc(2023, 10, 1, 15, 0)
  /\ unit.record["timezone"] = Txt("pst")
  /\ ~unit.ret.ok

-----------------------------------------------------------------------------
(* C13 *)

\* C13: the pipeline is idempotent on its own output: normalizing, grouping
\* and summarizing the normalized records of a produced report again skips no
\* record and yields a report identical to the first.
C13_RerunIsIdentical ==
  pc = "rerun" =>
    /\ ~rerun.crashed
    /\ rerun.warnings = <<>>
    /\ rerun.report = report

\* a second run has been made on a report of two days whose dates were met in
\* another order than the sorted one, with a workout given in a zone west of
\* UTC and a raw record that had a date field of its own
C13_Witness ==
  /\ pc = "rerun"
  /\ Len(report) = 2
  /\ Keys(merged_data) # [i \in 1..Len(report) |-> report[i].date]
  /\ \E i \in 1..Len(workout_records) : workout_records[i]["timezone"] = Txt("EST")
  /\ \E i \in 1..Len(sleep_records) : "date" \in DOMAIN sleep_records[i]
  /\ rerun.report # <<>>

-----------------------------------------------------------------------------
(* C14 *)

\* C14: when normalize_sleep_record fails because start_time or end_time
\* does not parse, the error it raises names the record's id whenever the
\* record has one.
C14_ErrorNamesRecordId ==
  ( /\ unit.fn = "normalize_sleep_record"
    /\ ~unit.ret.ok
    /\ unit.ret.exc = "ValueError"
    /\ "id" \in DOMAIN unit.record )
  => \E i \in 1..Len(unit.ret.mentions) : unit.ret.mentions[i] = unit.record["id"]

-----------------------------------------------------------------------------
(* C15 *)

\* the outcomes of the records of one kind normalized so far, each computed
\* from the record alone
OutcomesOf(kind) ==
  [i \in processed[kind] |-> NormalizeRecord(RecordsOf(kind)[i], kind)]

\* the list holds the normalized value of each record of the outcomes that
\* succeeded, as often as it arose, and nothing else
HoldsValuesOf(list, outcomes) ==
  /\ Len(list) = Cardinality({i \in DOMAIN outcomes : outcomes[i].ok})
  /\ \A i \in DOMAIN outcomes :
       outcomes[i].ok =>
         Occurrences(list, outcomes[i].val) =
           Cardinality({j \in DOMAIN outcomes : outcomes[j] = outcomes[i]})

\* the counts and sums of a daily summary
Totals(day) ==
  [date |-> day.date,
   sleep_count |-> day.sleep.count,
   total_duration_hours |-> day.sleep.total_duration_hours,
   average_quality_score |-> day.sleep.average_quality_score,
   workout_count |-> day.workouts.count,
   total_duration_minutes |-> day.workouts.total_duration_minutes,
   total_calories_burned |-> day.workouts.total_calories_burned]

\* the report of the batch normalized in the order of the files
ReportInFileOrder(r) == generate_merged_report(merge_by_date(r.sleep, r.workouts))

\* C15: normalization has no cross-record dependency: whatever the order in
\* which the sleep and workout records of a batch are normalized, each
\* record's outcome is the one the record alone determines, and the report
\* has the days, and for each day the counts and sums, of the report made in
\* the order of the files.
C15_OrderIndependent ==
  LET r == normalize_data(sleep_records, workout_records) IN
  /\ pc # "crashed" =>
       /\ HoldsValuesOf(normalized_sleep, OutcomesOf("sleep"))
       /\ HoldsValuesOf(normalized_workouts, OutcomesOf("workout"))
       /\ Len(warnings) =
            Cardinality({i \in processed["sleep"] : ~OutcomesOf("sleep")[i].ok})
            + Cardinality({i \in processed["workout"] : ~OutcomesOf("workout")[i].ok})
  /\ pc = "crashed" => r.crashed
  /\ AfterNormalize /\ pc # "crashed" =>
       /\ ~r.crashed
       /\ \A x \in Range(r.sleep) \cup Range(normalized_sleep) :
            Occurrences(normalized_sleep, x) = Occurrences(r.sleep, x)
       /\ \A x \in Range(r.workouts) \cup Range(normalized_workouts) :
            Occurrences(normalized_workouts, x) = Occurrences(r.workouts, x)
  /\ AfterReport =>
       /\ Len(report) = Len(ReportInFileOrder(r))
       /\ \A i \in 1..Len(report) : Totals(report[i]) = Totals(ReportInFileOrder(r)[i])

\* a report has been made of a batch whose two sleep records, of the same
\* day and of different durations, were normalized in the reverse of the
\* order of the file, and of which a workout record was skipped
C15_Witness ==
  /\ pc = "reported"
  /\ Len(normalized_sleep) = 2
  /\ normalized_sleep[1]["date"] = normalized_sleep[2]["date"]
  /\ normalized_sleep[1]["duration_hours"] # normalized_sleep[2]["duration_hours"]
  /\ normalized_sleep # normalize_data(sleep_records, workout_records).sleep
  /\ Len(normalized_workouts) = 1
  /\ Len(warnings) = 1

====
